---- MODULE Spec2Model ----
(***************************************************************************)
(* Model of sync.py: the sync-cuisines-to-aliases, sync-cuisines and       *)
(* sync-places commands working on the _places and _cuisines collections,  *)
(* the alias file _data/aliases.yml and the rows of the spreadsheet.       *)
(*                                                                         *)
(* A Python str is a sequence of one-character strings, so that slugify,   *)
(* split, strip, lower and startswith are computed and not assumed.  A     *)
(* Python list is a sequence; None and the lists that may be None are      *)
(* tagged records (NoneV, ListV).                                          *)
(***************************************************************************)
EXTENDS Integers, Sequences, FiniteSets, TLC

VARIABLES aliases, places, cuisinesDir, sheet, last, phase, snap

vars == <<aliases, places, cuisinesDir, sheet, last, phase, snap>>

(***************************************************************************)
(* Bounds.                                                                 *)
(***************************************************************************)
MaxRows == 2

(***************************************************************************)
(* Strings.                                                                *)
(***************************************************************************)
UpperChars == <<"A","B","C","D","E","F","G","H","I","J","K","L","M",
                "N","O","P","Q","R","S","T","U","V","W","X","Y","Z">>

LowerChars == <<"a","b","c","d","e","f","g","h","i","j","k","l","m",
                "n","o","p","q","r","s","t","u","v","w","x","y","z">>

DigitChars == {"0","1","2","3","4","5","6","7","8","9"}

Range(s) == {s[i] : i \in DOMAIN s}

UpperToLower == [c \in Range(UpperChars) |->
                    LowerChars[CHOOSE i \in DOMAIN UpperChars : UpperChars[i] = c]]

\* str.lower() on one character
LowerChar(c) == IF c \in DOMAIN UpperToLower THEN UpperToLower[c] ELSE c

\* str.lower()
Lower(s) == [i \in DOMAIN s |-> LowerChar(s[i])]

\* str.startswith(p)
StartsWith(s, p) == Len(s) >= Len(p) /\ SubSeq(s, 1, Len(p)) = p

RECURSIVE LStrip(_)
LStrip(s) == IF s # <<>> /\ Head(s) = " " THEN LStrip(Tail(s)) ELSE s

RECURSIVE RStrip(_)
RStrip(s) == IF s # <<>> /\ s[Len(s)] = " " THEN RStrip(SubSeq(s, 1, Len(s) - 1)) ELSE s

\* str.strip()
Strip(s) == RStrip(LStrip(s))

\* str.split(sep): the pieces between the separators, empty pieces kept
RECURSIVE SplitAcc(_, _, _)
SplitAcc(s, sep, cur) ==
    IF s = <<>> THEN <<cur>>
    ELSE IF Head(s) = sep THEN <<cur>> \o SplitAcc(Tail(s), sep, <<>>)
    ELSE SplitAcc(Tail(s), sep, Append(cur, Head(s)))

Split(s, sep) == SplitAcc(s, sep, <<>>)

\* sep.join(parts)
RECURSIVE Join(_, _)
Join(sep, parts) ==
    IF parts = <<>> THEN <<>>
    ELSE IF Len(parts) = 1 THEN parts[1]
    ELSE parts[1] \o <<sep>> \o Join(sep, Tail(parts))

STOPWORDS == { <<"t","h","e">> }

\* slugify(text, stopwords=STOPWORDS) of python-slugify: lower-case the text,
\* turn every run of characters other than a-z, 0-9 and "-" into one "-",
\* strip the dashes at both ends, drop the words that are stopwords.
SlugChars == Range(LowerChars) \cup DigitChars \cup {"-"}

SlugAllowed(c) == c \in SlugChars

SlugDashed(s) == [i \in DOMAIN s |-> IF SlugAllowed(LowerChar(s[i])) THEN LowerChar(s[i]) ELSE "-"]

SlugWords(s) == SelectSeq(Split(SlugDashed(s), "-"), LAMBDA w : w # <<>>)

slugify(s) == Join("-", SelectSeq(SlugWords(s), LAMBDA w : w \notin STOPWORDS))

\* no element twice in a list
NoRepeat(l) == \A i, j \in DOMAIN l : l[i] = l[j] => i = j

\* item in list
InList(x, l) == \E i \in DOMAIN l : l[i] = x

\* the concatenation of a list of lists
RECURSIVE Flatten(_)
Flatten(ll) == IF ll = <<>> THEN <<>> ELSE Head(ll) \o Flatten(Tail(ll))

NoneV == [k |-> "none"]

ListV(l) == [k |-> "list", v |-> l]

\* Python truthiness of a value that is None or a list
Truthy(x) == x.k = "list" /\ x.v # <<>>


(***************************************************************************)
(* Program constants.                                                      *)
(***************************************************************************)
\* three of the thirty-six names of the list, in the list's order: one that
\* ends with "s" and two that do not
CUISINE_INITIAL == << <<"B","a","r","s">>, <<"M","e","x","i","c","a","n">>, <<"T","h","a","i">> >>

CUISINE_INITIAL_SLUGS == [i \in DOMAIN CUISINE_INITIAL |-> slugify(CUISINE_INITIAL[i])]

SHEETS_BOOL_FIELDS == <<"active", "curbside", "delivery", "dinein", "featured",
                        "giftcard", "perma_closed", "takeout">>

SHEETS_STRING_FIELDS == <<"name", "address", "place_type", "cuisine",
                          "curbside_instructions", "giftcard_notes", "hours",
                          "locality", "neighborhood", "notes", "region",
                          "restaurant_phone">>

SHEETS_URL_FIELDS == <<"delivery_service_websites", "facebook_url", "giftcard_url",
                       "instagram_url", "twitch_url", "twitter_url", "website">>

FOOD_SERVICE_URLS == <<"chownow_url", "doordash_url", "eatstreet_url", "grubhub_url",
                       "postmates_url", "seamless_url", "ubereats_url">>

FOOD_SERVICE_DICT ==
    [c \in Range(FOOD_SERVICE_URLS) |->
        CASE c = "chownow_url" -> "chownow.com"
          [] c = "doordash_url" -> "doordash.com"
          [] c = "eatstreet_url" -> "eatstreet.com"
          [] c = "grubhub_url" -> "grubhub.com"
          [] c = "postmates_url" -> "postmates.com"
          [] c = "seamless_url" -> "seamless.com"
          [] c = "ubereats_url" -> "ubereats.com"]

\* Boolean.coerce_values of typesystem with the four tokens line 18 adds:
\* the tokens that coerce to True
TrueTokens == { <<"t","r","u","e">>, <<"o","n">>, <<"1">>, <<"y">>, <<"y","e","s">> }

\* string_to_boolean: a value the validator rejects, or coerces to None or
\* False, gives False
string_to_boolean(value) == Lower(value) \in TrueTokens

verify_http(value) ==
    IF value = <<>> \/ StartsWith(value, <<"h","t","t","p">>) THEN value
    ELSE <<"h","t","t","p","s",":","/","/">> \o value

(***************************************************************************)
(* The alias file _data/aliases.yml.  aliases.exists says whether the file *)
(* is there and aliases.data is its YAML mapping: under "cuisines" the     *)
(* list of [name, aliases] entries, under "unknown-cuisines" the alias     *)
(* list of its single entry.  That list is written from the iteration of a *)
(* Python set, whose order is not fixed: it is kept as the set of its      *)
(* elements (SetV).                                                        *)
(***************************************************************************)
SetV(s) == [k |-> "set", v |-> s]

EmptyDict == [k \in {} |-> NoneV]

AliasFile(data) == [exists |-> TRUE, data |-> data]

NoAliasFile == [exists |-> FALSE, data |-> EmptyDict]

\* load_aliases: the mapping of the file, dict() when there is no file
load_aliases(file) == IF file.exists THEN file.data ELSE EmptyDict

\* aliases_to_cuisine: alias -> name, a later entry replacing an earlier one
aliases_to_cuisine(entries) ==
    LET keys == UNION {Range(entries[i].aliases) : i \in DOMAIN entries}
        lastOf(a) == CHOOSE i \in DOMAIN entries :
                        /\ InList(a, entries[i].aliases)
                        /\ \A j \in DOMAIN entries : InList(a, entries[j].aliases) => j <= i
    IN  [a \in keys |-> entries[lastOf(a)].name]

(***************************************************************************)
(* Records: a metadata mapping and a body.                                 *)
(***************************************************************************)
Post(md, body) == [metadata |-> md, content |-> body]

\* post["cuisines"] raises KeyError on a record without the key
PlacesReadable(pl) == \A s \in DOMAIN pl : "cuisines" \in DOMAIN pl[s].metadata

\* the labels of the cuisines lists of all Place records (data += cuisines)
ObservedCuisines(pl) ==
    UNION {IF Truthy(pl[s].metadata["cuisines"]) THEN Range(pl[s].metadata["cuisines"].v) ELSE {}
           : s \in DOMAIN pl}

(***************************************************************************)
(* sync-cuisines-to-aliases                                                *)
(***************************************************************************)
\* lines 227-232: an entry [name: slug, aliases: []] is appended for every
\* seed name whose slug is the lower-cased name of no entry
RECURSIVE EnsureSeedEntries(_, _)
EnsureSeedEntries(entries, i) ==
    IF i > Len(CUISINE_INITIAL) THEN entries
    ELSE LET cuisine_slug == slugify(CUISINE_INITIAL[i])
         IN  IF \E e \in DOMAIN entries : cuisine_slug = Lower(entries[e].name)
             THEN EnsureSeedEntries(entries, i + 1)
             ELSE EnsureSeedEntries(Append(entries, [name |-> cuisine_slug, aliases |-> <<>>]), i + 1)

\* lines 234-239: the slugs of the observed labels that are in the alias
\* list of no entry and are not the slug of a seed name
UnknownCuisines(observed, entries) ==
    {cuisine \in {slugify(item) : item \in observed} :
        /\ ~ \E e \in DOMAIN entries : InList(cuisine, entries[e].aliases)
        /\ ~ InList(cuisine, CUISINE_INITIAL_SLUGS)}

\* the whole command: the outcome and the alias file it leaves
SyncCuisinesToAliasesOutcome(file, pl) ==
    LET dict == load_aliases(file) IN
    IF "cuisines" \notin DOMAIN dict \/ ~ PlacesReadable(pl)
    THEN [exit |-> 1, err |-> "KeyError", aliases |-> file]
    ELSE LET entries == EnsureSeedEntries(dict["cuisines"], 1)
             unknown == UnknownCuisines(ObservedCuisines(pl), entries)
         IN  [exit |-> 0, err |-> "none",
              aliases |-> AliasFile([k \in {"cuisines", "unknown-cuisines"} |->
                                        IF k = "cuisines" THEN entries ELSE SetV(unknown)])]

DoSyncCuisinesToAliases ==
    LET out == SyncCuisinesToAliasesOutcome(aliases, places) IN
    /\ aliases' = out.aliases
    /\ last' = [cmd |-> "sync_cuisines_to_aliases", overwrite |-> FALSE, cfg |-> "ok",
                exit |-> out.exit, err |-> out.err]
    /\ UNCHANGED <<places, cuisinesDir, sheet>>

(***************************************************************************)
(* sync-cuisines                                                           *)
(***************************************************************************)
\* Path(...).write_text(...): the file of a slug is created or replaced
Put(dir, slug, post) == [k \in DOMAIN dir \cup {slug} |-> IF k = slug THEN post ELSE dir[k]]

\* line 270 rewritten always
SeedWrittenAlways(exists, overwrite) == TRUE

\* line 270: a seed record is written when it has no file or on --overwrite
SeedWritten(exists, overwrite) == (~ exists) \/ overwrite

\* lines 280-283
SeedTitle(cuisine) ==
    IF cuisine # <<>> /\ cuisine[Len(cuisine)] = "s"
    THEN cuisine \o <<" in Lawrence, Kansas">>
    ELSE cuisine \o <<" Restaurants in Lawrence, Kansas">>

\* lines 271-298: the record generated for a seed name
SeedPost(cuisine, entries) ==
    LET cuisine_slug == slugify(cuisine)
        matching == {e \in DOMAIN entries : cuisine_slug = Lower(entries[e].name)}
        first == CHOOSE e \in matching : \A f \in matching : e <= f
        keys == {"active", "description", "name", "sitemap", "slug", "title"}
                    \cup (IF matching # {} THEN {"aliases", "redirect_from"} ELSE {})
    IN  Post([k \in keys |->
                CASE k = "active" -> TRUE
                  [] k = "description" ->
                        cuisine \o <<" restaurants offering curbside, takeout, and delivery food in Lawrence, Kansas">>
                  [] k = "name" -> cuisine
                  [] k = "sitemap" -> TRUE
                  [] k = "slug" -> cuisine_slug
                  [] k = "title" -> SeedTitle(cuisine)
                  [] k = "aliases" -> entries[first].aliases
                  [] k = "redirect_from" ->
                        [a \in DOMAIN entries[first].aliases |->
                            <<"/cuisines/">> \o slugify(entries[first].aliases[a]) \o <<"/">>]],
             <<>>)

\* lines 268-302: the seed loop
RECURSIVE WriteSeeds(_, _, _, _)
WriteSeeds(dir, i, entries, overwrite) ==
    IF i > Len(CUISINE_INITIAL) THEN dir
    ELSE LET cuisine == CUISINE_INITIAL[i]
             cuisine_slug == slugify(cuisine)
         IN  IF SeedWritten(cuisine_slug \in DOMAIN dir, overwrite)
             THEN WriteSeeds(Put(dir, cuisine_slug, SeedPost(cuisine, entries)), i + 1, entries, overwrite)
             ELSE WriteSeeds(dir, i + 1, entries, overwrite)

\* lines 315-319: the placeholder record of an observed label
PlaceholderPost(cuisine) ==
    Post([k \in {"active", "name", "sitemap", "slug"} |->
            CASE k = "active" -> FALSE
              [] k = "name" -> cuisine
              [] k = "sitemap" -> FALSE
              [] k = "slug" -> slugify(cuisine)],
         <<>>)

\* lines 306-313: the observed labels that are no alias once lower-cased
Unaliased(observed, entries) ==
    LET alias_data == Flatten([e \in DOMAIN entries |-> entries[e].aliases])
    IN  {cuisine \in observed : ~ InList(Lower(cuisine), alias_data)}

\* lines 311-323: a placeholder is written for every slug of an unaliased
\* label that has no file; the set is iterated in no fixed order, so of the
\* labels that share a slug any one may be the first and give the name
PlaceholderDirs(dir, observed, entries) ==
    LET cand == Unaliased(observed, entries)
        fresh == {slugify(c) : c \in cand} \ DOMAIN dir
        picks == {f \in [fresh -> cand] : \A sl \in fresh : slugify(f[sl]) = sl}
    IN  {[k \in DOMAIN dir \cup fresh |->
            IF k \in fresh THEN PlaceholderPost(f[k]) ELSE dir[k]] : f \in picks}

DoSyncCuisines(overwrite) ==
    LET dict == load_aliases(aliases) IN
    /\ last' = [cmd |-> "sync_cuisines", overwrite |-> overwrite, cfg |-> "ok",
                exit |-> IF "cuisines" \in DOMAIN dict /\ PlacesReadable(places) THEN 0 ELSE 1,
                err |-> IF "cuisines" \in DOMAIN dict /\ PlacesReadable(places) THEN "none" ELSE "KeyError"]
    /\ IF "cuisines" \in DOMAIN dict /\ PlacesReadable(places)
       THEN cuisinesDir' \in PlaceholderDirs(WriteSeeds(cuisinesDir, 1, dict["cuisines"], overwrite),
                                              ObservedCuisines(places), dict["cuisines"])
       ELSE cuisinesDir' = cuisinesDir
    /\ UNCHANGED <<aliases, places, sheet>>

(***************************************************************************)
(* sync-places                                                             *)
(***************************************************************************)
\* item.get_field_value(var) raises ValueError when the header of the sheet
\* has no column var
HasField(header, var) == var \in header

\* line 410
PlaceSlug(item) ==
    slugify(Join(" ", <<item["name"],
                        IF item["neighborhood"] # <<>> THEN item["neighborhood"] ELSE item["address"]>>))

\* lines 450-462: the cuisines list of a row
Cuisines(item, header, unknown_cuisines) ==
    IF HasField(header, "cuisine") /\ item["cuisine"] # <<>>
    THEN LET parts == Split(item["cuisine"], ",")
             labels == [i \in DOMAIN parts |-> Strip(parts[i])]
         IN  IF unknown_cuisines.k = "set" /\ unknown_cuisines.v # {}
             THEN ListV(SelectSeq(labels, LAMBDA c : slugify(c) \notin unknown_cuisines.v))
             ELSE ListV(labels)
    ELSE NoneV

\* lines 466-473: the slug of every label, followed by the canonical name of
\* the slug when it has one that is not in the list yet
RECURSIVE CuisineSlugsAcc(_, _, _)
CuisineSlugsAcc(labels, acc, cuisine_aliases) ==
    IF labels = <<>> THEN acc
    ELSE LET cuisine_slug == slugify(Head(labels))
             acc1 == Append(acc, cuisine_slug)
         IN  IF cuisine_slug \in DOMAIN cuisine_aliases
                  /\ ~ InList(cuisine_aliases[cuisine_slug], acc1)
             THEN CuisineSlugsAcc(Tail(labels), Append(acc1, cuisine_aliases[cuisine_slug]), cuisine_aliases)
             ELSE CuisineSlugsAcc(Tail(labels), acc1, cuisine_aliases)

\* lines 464-476
CuisineSlugs(cuisines, cuisine_aliases) ==
    IF Truthy(cuisines) THEN ListV(CuisineSlugsAcc(cuisines.v, <<>>, cuisine_aliases)) ELSE NoneV

\* lines 483-501: the ordering links of a row
RECURSIVE FoodUrlsAcc(_, _, _, _)
FoodUrlsAcc(item, header, i, acc) ==
    IF i > Len(FOOD_SERVICE_URLS) THEN acc
    ELSE LET var == FOOD_SERVICE_URLS[i] IN
         IF HasField(header, var) /\ verify_http(item[var]) # <<>>
         THEN FoodUrlsAcc(item, header, i + 1,
                          Append(acc, [name |-> FOOD_SERVICE_DICT[var], url |-> verify_http(item[var])]))
         ELSE FoodUrlsAcc(item, header, i + 1, acc)

FoodUrls(item, header) ==
    FoodUrlsAcc(item, header, 1,
                IF HasField(header, "delivery_service_websites")
                     /\ verify_http(item["delivery_service_websites"]) # <<>>
                THEN << [name |-> "order online", url |-> verify_http(item["delivery_service_websites"])] >>
                ELSE <<>>)

DeclaredFields == Range(SHEETS_BOOL_FIELDS) \cup Range(SHEETS_STRING_FIELDS) \cup Range(SHEETS_URL_FIELDS)

BoolFields == Range(SHEETS_BOOL_FIELDS)

StringFields == Range(SHEETS_STRING_FIELDS)

UrlFields == Range(SHEETS_URL_FIELDS)

\* the keys of the place dict of a row: the ones always set, the declared
\* columns the sheet has, and neighborhood_slug for a non-empty neighborhood
PlaceKeys(item, header) ==
    {"sitemap", "slug", "cuisines", "cuisine_slugs", "food_urls"}
        \cup (header \cap DeclaredFields)
        \cup (IF HasField(header, "neighborhood") /\ item["neighborhood"] # <<>>
              THEN {"neighborhood_slug"} ELSE {})

\* lines 419-501: the place dict of a row
BuildPlace(item, header, cuisine_aliases, unknown_cuisines) ==
    LET cuisines == Cuisines(item, header, unknown_cuisines) IN
    [k \in PlaceKeys(item, header) |->
        CASE k = "sitemap" -> FALSE
          [] k = "slug" -> PlaceSlug(item)
          [] k = "cuisines" -> cuisines
          [] k = "cuisine_slugs" -> CuisineSlugs(cuisines, cuisine_aliases)
          [] k = "neighborhood_slug" -> slugify(item["neighborhood"])
          [] k = "food_urls" -> FoodUrls(item, header)
          [] k \in BoolFields -> string_to_boolean(item[k])
          [] k \in StringFields -> item[k]
          [] k \in UrlFields -> verify_http(item[k])]

\* the loaded metadata replaced by the place dict
MergeReplaces(metadata, place) == place

\* line 505, post.metadata.update(place)
MergeMetadata(metadata, place) ==
    [k \in DOMAIN metadata \cup DOMAIN place |-> IF k \in DOMAIN place THEN place[k] ELSE metadata[k]]

\* lines 407-409 and 503 read name, address, neighborhood and notes outside
\* any try: the ValueError of a missing one ends the command
RowRaises(header) ==
    ~ (HasField(header, "name") /\ HasField(header, "address")
        /\ HasField(header, "neighborhood") /\ HasField(header, "notes"))

\* lines 406-507 for one row: the record loaded (or an empty one), merged
\* and written back
ReconcileRow(pl, item, header, cuisine_aliases, unknown_cuisines) ==
    LET slug == PlaceSlug(item)
        loaded == IF slug \in DOMAIN pl THEN pl[slug].metadata ELSE EmptyDict
    IN  Put(pl, slug, Post(MergeMetadata(loaded, BuildPlace(item, header, cuisine_aliases, unknown_cuisines)),
                           item["notes"]))

\* the loop over the rows of the table
RECURSIVE ReconcileRows(_, _, _, _, _)
ReconcileRows(pl, rows, header, cuisine_aliases, unknown_cuisines) ==
    IF rows = <<>> THEN [err |-> "none", places |-> pl]
    ELSE IF RowRaises(header) THEN [err |-> "ValueError", places |-> pl]
    ELSE ReconcileRows(ReconcileRow(pl, Head(rows), header, cuisine_aliases, unknown_cuisines),
                       Tail(rows), header, cuisine_aliases, unknown_cuisines)

\* lines 374-377
UnknownOf(dict) == IF "unknown-cuisines" \in DOMAIN dict THEN dict["unknown-cuisines"] ELSE NoneV

ConfigErrors == {"no_credentials", "bad_sheet_id", "bad_sheet_name"}

\* the rows reconciled first, the configuration error reported afterwards
SyncPlacesChecksLate(cfg, sh, file, pl) ==
    LET dict == load_aliases(file) IN
    IF "cuisines" \notin DOMAIN dict THEN [exit |-> 1, err |-> "KeyError", places |-> pl]
    ELSE LET r == ReconcileRows(pl, sh.rows, sh.header,
                                aliases_to_cuisine(dict["cuisines"]), UnknownOf(dict))
         IN  IF cfg \in ConfigErrors THEN [exit |-> 1, err |-> cfg, places |-> r.places]
             ELSE [exit |-> IF r.err = "none" THEN 0 ELSE 1, err |-> r.err, places |-> r.places]

\* the whole command: aliases_to_cuisine (KeyError without alias data), the
\* three configuration checks with sys.exit(1), then the rows
SyncPlacesOutcome(cfg, sh, file, pl) ==
    LET dict == load_aliases(file) IN
    IF "cuisines" \notin DOMAIN dict THEN [exit |-> 1, err |-> "KeyError", places |-> pl]
    ELSE IF cfg \in ConfigErrors THEN [exit |-> 1, err |-> cfg, places |-> pl]
    ELSE LET r == ReconcileRows(pl, sh.rows, sh.header,
                                aliases_to_cuisine(dict["cuisines"]), UnknownOf(dict))
         IN  [exit |-> IF r.err = "none" THEN 0 ELSE 1, err |-> r.err, places |-> r.places]

DoSyncPlaces(cfg) ==
    LET out == SyncPlacesOutcome(cfg, sheet, aliases, places) IN
    /\ places' = out.places
    /\ last' = [cmd |-> "sync_places", overwrite |-> FALSE, cfg |-> cfg,
                exit |-> out.exit, err |-> out.err]
    /\ UNCHANGED <<aliases, cuisinesDir, sheet>>

(***************************************************************************)
(* The inputs: the sheets the spreadsheet client may return, and the alias *)
(* files and collections a run may find.                                   *)
(***************************************************************************)
AllColumns == Range(SHEETS_BOOL_FIELDS) \cup Range(SHEETS_STRING_FIELDS)
                \cup Range(SHEETS_URL_FIELDS) \cup Range(FOOD_SERVICE_URLS)

Row(name, address, neighborhood, cuisine, hours, notes) ==
    [c \in AllColumns |->
        CASE c = "name" -> name
          [] c = "address" -> address
          [] c = "neighborhood" -> neighborhood
          [] c = "cuisine" -> cuisine
          [] c = "hours" -> hours
          [] c = "notes" -> notes
          [] c = "active" -> <<"Y">>
          [] c = "delivery" -> <<"n","o">>
          [] c = "takeout" -> <<"y","e","s">>
          [] c = "website" -> <<"z",".","c","o">>
          [] c = "facebook_url" -> <<"h","t","t","p",":","/","/","f",".","c","o">>
          [] c = "doordash_url" -> <<"d",".","c","o">>
          [] OTHER -> <<>>]

\* two rows with the slug zed-north and one with the slug pub-main; a sheet
\* has up to MaxRows of them, each once
RowPool ==
    { Row(<<"Z","e","d">>, <<"1"," ","M","a","i","n">>, <<"N","o","r","t","h">>, <<"T","h","a","i">>, <<"1","0","-","6">>, <<"B">>),
      Row(<<"Z","e","d">>, <<"N","o","r","t","h">>, <<>>, <<"T","e","x","-","M","e","x",","," ","t","e","x"," ","m","e","x">>, <<"9","-","5">>, <<>>),
      Row(<<"T","h","e"," ","P","u","b">>, <<"M","a","i","n">>, <<>>, <<"P","u","b",","," ","P","h","o">>, <<>>, <<>>) }

MissingColumns == {"hours", "notes", "name", "cuisine"}

Sheet(header, rows) ==
    [header |-> header, rows |-> [i \in DOMAIN rows |-> [c \in header |-> rows[i][c]]]]

Sheets ==
    {Sheet(AllColumns, rows) : rows \in {r \in UNION {[1..n -> RowPool] : n \in 0..MaxRows} : NoRepeat(r)}}
        \cup {Sheet(AllColumns \ {c}, <<Row(<<"Z","e","d">>, <<"1"," ","M","a","i","n">>, <<"N","o","r","t","h">>, <<"T","h","a","i">>, <<"1","0","-","6">>, <<"B">>)>>)
                : c \in MissingColumns}

Entry(name, als) == [name |-> name, aliases |-> als]

\* no file; a file with an empty cuisines list; a file an operator filled in
AliasFiles ==
    { NoAliasFile,
      AliasFile([k \in {"cuisines"} |-> <<>>]),
      AliasFile([k \in {"cuisines"} |->
                    << Entry(<<"M","e","x","i","c","a","n">>, << <<"t","e","x","-","m","e","x">> >>),
                       Entry(<<"p","u","b">>, << <<"t","a","v","e","r","n">> >>) >>]) }

\* an empty collection; a record of an earlier pass; a hand-written record
\* without a cuisines list
PlaceDirs ==
    { [sl \in {} |-> Post(EmptyDict, <<>>)],
      [sl \in {<<"z","e","d","-","n","o","r","t","h">>} |->
            Post([k \in {"name", "hours", "notes", "cuisines", "cuisine_slugs"} |->
                    CASE k = "name" -> <<"Z","e","d">>
                      [] k = "hours" -> <<"9","-","5">>
                      [] k = "notes" -> <<"A">>
                      [] k = "cuisines" -> ListV(<< <<"P","h","o">> >>)
                      [] k = "cuisine_slugs" -> ListV(<< <<"p","h","o">> >>)],
                 <<"A">>)],
      [sl \in {<<"o","l","d">>} |-> Post([k \in {"name"} |-> <<"O","l","d">>], <<>>)] }

\* an empty collection; a seed record whose title an operator edited
CuisineDirs ==
    { [sl \in {} |-> Post(EmptyDict, <<>>)],
      [sl \in {<<"t","h","a","i">>} |->
            Post([k \in {"active", "name", "sitemap", "slug", "title"} |->
                    CASE k = "active" -> TRUE
                      [] k = "name" -> <<"T","h","a","i">>
                      [] k = "sitemap" -> TRUE
                      [] k = "slug" -> <<"t","h","a","i">>
                      [] k = "title" -> <<"Best Thai">>],
                 <<"edited">>)] }

Configs == {"ok"} \cup ConfigErrors

(***************************************************************************)
(* The state machine.  last is the command run last with its arguments and *)
(* its outcome; phase and snap follow the full passes (see SpecPass).      *)
(***************************************************************************)
Init ==
    /\ aliases \in AliasFiles
    /\ places \in PlaceDirs
    /\ cuisinesDir \in CuisineDirs
    /\ sheet \in Sheets
    /\ last = [cmd |-> "none", overwrite |-> FALSE, cfg |-> "ok", exit |-> 0, err |-> "none"]
    /\ phase = 0
    /\ snap = <<>>

SyncCuisinesToAliases == DoSyncCuisinesToAliases /\ UNCHANGED <<phase, snap>>

SyncCuisines == \E overwrite \in BOOLEAN : DoSyncCuisines(overwrite) /\ UNCHANGED <<phase, snap>>

SyncPlaces == \E cfg \in Configs : DoSyncPlaces(cfg) /\ UNCHANGED <<phase, snap>>

Next == SyncCuisinesToAliases \/ SyncCuisines \/ SyncPlaces

Spec == Init /\ [][Next]_vars

(***************************************************************************)
(* Full passes: sync-cuisines-to-aliases, sync-places, sync-cuisines, in   *)
(* this order, over the same sheet; a pass stops at the command that       *)
(* fails.  snap holds what the last completed pass left: the unknown       *)
(* bucket and the cuisines and cuisine_slugs lists of every Place record.  *)
(***************************************************************************)
Observed(file, pl) ==
    [unknown |-> UnknownOf(load_aliases(file)),
     lists |-> [sl \in DOMAIN pl |-> <<pl[sl].metadata["cuisines"], pl[sl].metadata["cuisine_slugs"]>>]]

PassAliases ==
    /\ phase = 0
    /\ DoSyncCuisinesToAliases
    /\ phase' = IF last'.exit = 0 THEN 1 ELSE 3
    /\ UNCHANGED snap

PassPlaces ==
    /\ phase = 1
    /\ DoSyncPlaces("ok")
    /\ phase' = IF last'.exit = 0 THEN 2 ELSE 3
    /\ UNCHANGED snap

PassCuisines ==
    /\ phase = 2
    /\ DoSyncCuisines(FALSE)
    /\ phase' = IF last'.exit = 0 THEN 0 ELSE 3
    /\ snap' = IF last'.exit = 0 THEN <<Observed(aliases, places)>> ELSE snap

NextPass == PassAliases \/ PassPlaces \/ PassCuisines

SpecPass == Init /\ [][NextPass]_vars

(***************************************************************************)
(* Properties.                                                             *)
(***************************************************************************)
\* what sync-places works with: the alias -> name mapping and the bucket
CuisineAliasesOf(file) == aliases_to_cuisine(load_aliases(file)["cuisines"])

\* the rows of the sheet with the slug of row i
SameSlugRows(sh, sl) == {j \in DOMAIN sh.rows : PlaceSlug(sh.rows[j]) = sl}

LastRow(js) == CHOOSE j \in js : \A i \in js : i <= j

C2_NoOverwriteKeepsRecords ==
    [][(last'.cmd = "sync_cuisines" /\ ~ last'.overwrite) =>
        \A sl \in DOMAIN cuisinesDir :
            sl \in DOMAIN cuisinesDir' /\ cuisinesDir'[sl] = cuisinesDir[sl]]_vars

\* C2 witness: a run without --overwrite completed, created the record of
\* another seed name, and the edited title of the thai record is still there.
C2_Witness ==
    /\ last.cmd = "sync_cuisines" /\ ~ last.overwrite /\ last.exit = 0
    /\ <<"t","h","a","i">> \in DOMAIN cuisinesDir
    /\ cuisinesDir[<<"t","h","a","i">>].metadata["title"] = <<"Best Thai">>
    /\ cuisinesDir[<<"t","h","a","i">>].metadata["title"] # SeedTitle(<<"T","h","a","i">>)
    /\ <<"b","a","r","s">> \in DOMAIN cuisinesDir

\* C3: after sync-cuisines-to-aliases the unknown bucket is exactly the set
\* of observed slugs that are the name of no canonical entry, an alias of no
\* canonical entry and the slug of no seed name.
C3_UnknownBucketExact ==
    (last.cmd = "sync_cuisines_to_aliases" /\ last.exit = 0) =>
        LET entries == load_aliases(aliases)["cuisines"] IN
        UnknownOf(load_aliases(aliases)) =
            SetV({c \in {slugify(x) : x \in ObservedCuisines(places)} :
                    /\ ~ \E e \in DOMAIN entries : c = slugify(entries[e].name)
                    /\ ~ \E e \in DOMAIN entries : InList(c, entries[e].aliases)
                    /\ ~ InList(c, CUISINE_INITIAL_SLUGS)})

\* the canonical slugs the alias table gives for a label: slug(c) for every
\* entry c that has the label, or its slug, among its aliases
CanonicalSlugs(v, entries) ==
    {slugify(entries[e].name) : e \in {f \in DOMAIN entries :
        InList(v, entries[f].aliases) \/ InList(slugify(v), entries[f].aliases)}}

\* C4: after sync-places, the slugs recorded in cuisine_slugs for the
\* surviving labels of a row are, for every label v, slug(v) and, when v is
\* an alias of a canonical entry c, slug(c); nothing else.
C4_AliasResolution ==
    (last.cmd = "sync_places" /\ last.exit = 0) =>
        \A i \in DOMAIN sheet.rows :
            LET md == places[PlaceSlug(sheet.rows[i])].metadata
                entries == load_aliases(aliases)["cuisines"]
            IN  Truthy(md["cuisines"]) =>
                    Range(md["cuisine_slugs"].v) =
                        UNION {{slugify(v)} \cup CanonicalSlugs(v, entries) : v \in Range(md["cuisines"].v)}

\* C5: with no alias file, a command whose other inputs are in order (a
\* configuration that works, a sheet with the columns read outside any try,
\* Place records with a cuisines list) completes.
C5_FirstRunCompletes ==
    (/\ ~ aliases.exists
     /\ last.cmd # "none"
     /\ last.cmd = "sync_places" => (last.cfg = "ok" /\ ~ RowRaises(sheet.header))
     /\ last.cmd # "sync_places" => PlacesReadable(places))
        => last.exit = 0

\* C6: a sheet that lacks a declared column does not abort sync-places: with
\* alias data and a configuration that works the command completes, whatever
\* the header.
C6_MissingColumnNeverAborts ==
    (last.cmd = "sync_places" /\ last.cfg = "ok" /\ aliases.exists) => last.exit = 0

\* C7: a sync-places that ends in a configuration error exits non-zero and
\* has changed no Place record and no alias data.
C7_ConfigErrorsWriteNothing ==
    [][(last'.cmd = "sync_places" /\ last'.err \in ConfigErrors) =>
        (last'.exit # 0 /\ places' = places /\ aliases' = aliases)]_vars

\* C7 witness: the command ended in a configuration error although alias
\* data was there and the sheet had a row whose record does not exist yet.
C7_Witness ==
    /\ last.cmd = "sync_places" /\ last.err \in ConfigErrors /\ last.exit = 1
    /\ aliases.exists
    /\ sheet.rows # <<>> /\ ~ RowRaises(sheet.header)
    /\ PlaceSlug(sheet.rows[1]) \notin DOMAIN places

\* C8: no slug occurs twice in the cuisine_slugs list of a Place record.
C8_CuisineSlugsDeduplicated ==
    \A sl \in DOMAIN places :
        ("cuisine_slugs" \in DOMAIN places[sl].metadata /\ Truthy(places[sl].metadata["cuisine_slugs"]))
            => NoRepeat(places[sl].metadata["cuisine_slugs"].v)

\* C9: when several rows of a completed sync-places have the same slug, the
\* record at that slug is the one the last of them alone gives when
\* reconciled onto the record of before the run.
C9_LastWriteWins ==
    [][(last'.cmd = "sync_places" /\ last'.exit = 0) =>
        \A i \in DOMAIN sheet.rows :
            LET sl == PlaceSlug(sheet.rows[i])
                js == SameSlugRows(sheet, sl)
            IN  Cardinality(js) > 1 =>
                    places'[sl] = ReconcileRow(places, sheet.rows[LastRow(js)], sheet.header,
                                               CuisineAliasesOf(aliases),
                                               UnknownOf(load_aliases(aliases)))[sl]]_vars

\* C10: a full pass that completes after another completed pass leaves the
\* unknown bucket and the cuisines and cuisine_slugs lists of every Place
\* record as the earlier pass left them.
C10_PassesReachFixedPoint ==
    [][(phase = 2 /\ phase' = 0 /\ snap # <<>>) => snap' = snap]_vars
====
